---- MODULE Spec2Model ----
(***************************************************************************)
(* Model of food_calculator_app.py: the Choi-Okos property aggregator, the *)
(* one-term Heisler operations, and the Streamlit script that calls them.  *)
(*                                                                         *)
(* Python floats are modelled in fixed point.  A quantity q is carried as  *)
(* the integer q * Fix (four decimals, the precision of the Heisler        *)
(* tables) unless its definition states another unit:                      *)
(*   Fourier number   q * FoFix   (two decimals)                           *)
(*   diffusivity      q * 10^11                                            *)
(*   time             whole seconds (inputs), whole minutes (results)      *)
(*   convection h     whole W/(m2 K)                                       *)
(* Every product and quotient truncates toward zero.                       *)
(***************************************************************************)
EXTENDS Integers, Sequences, FiniteSets, TLC

\* ------------------------------------------------------------ arithmetic

Fix == 10000
FoFix == 100

Abs(x) == IF x < 0 THEN -x ELSE x
Sgn(x) == IF x < 0 THEN -1 ELSE IF x = 0 THEN 0 ELSE 1

\* The one element of a singleton set.
Only(S) == CHOOSE x \in S : TRUE

\* One doubling step of MulDivQR: from h = <<q, r>> for a*(b \div 2) to the
\* pair for a*b.
MulDivStep(h, a, b, c) ==
  IF (b % 2) = 0
  THEN <<(2 * h[1]) + ((2 * h[2]) \div c), (2 * h[2]) % c>>
  ELSE <<(2 * h[1]) + (a \div c) + ((((2 * h[2]) % c) + (a % c)) \div c)
           + ((2 * h[2]) \div c),
         (((2 * h[2]) % c) + (a % c)) % c>>

\* <<q, r>> with a*b = q*c + r and 0 <= r < c, for a, b >= 0 and c > 0,
\* computed by doubling so that no intermediate exceeds the integer width.
RECURSIVE MulDivQR(_, _, _)
MulDivQR(a, b, c) ==
  IF b = 0 THEN <<0, 0>>
  ELSE Only({MulDivStep(h, a, b, c) : h \in {MulDivQR(a, b \div 2, c)}})

\* The same pair computed digit by digit in base B, where (2*B - 1)*c fits
\* the integer width.
MulDivStepB(h, a, b, c, B) ==
  <<(B * h[1]) + ((a \div c) * (b % B))
      + (((B * h[2]) + ((a % c) * (b % B))) \div c),
    ((B * h[2]) + ((a % c) * (b % B))) % c>>

RECURSIVE MulDivQRB(_, _, _, _)
MulDivQRB(a, b, c, B) ==
  IF b = 0 THEN <<0, 0>>
  ELSE Only({MulDivStepB(h, a, b, c, B) : h \in {MulDivQRB(a, b \div B, c, B)}})

\* a*b \div c for a >= b > 0 and c > 0 whose product exceeds the width.
MulDivLargo(a, b, c) ==
  IF c <= 2147483647 \div 7
  THEN MulDivQRB(a, b, c, ((2147483647 \div c) + 1) \div 2)[1]
  ELSE MulDivQR(a, b, c)[1]

\* a*b/c truncated toward zero, any signs, c # 0; the product is formed
\* directly when it fits.
MulDiv(a, b, c) ==
  IF a = 0 \/ b = 0 THEN 0
  ELSE IF Abs(b) <= 2147483647 \div Abs(a)
  THEN Sgn(a) * Sgn(b) * Sgn(c) * ((Abs(a) * Abs(b)) \div Abs(c))
  ELSE IF Abs(a) >= Abs(b)
  THEN Sgn(a) * Sgn(b) * Sgn(c) * MulDivLargo(Abs(a), Abs(b), Abs(c))
  ELSE Sgn(a) * Sgn(b) * Sgn(c) * MulDivLargo(Abs(b), Abs(a), Abs(c))

\* x*y and x/y of two Fix-scaled values.
FMul(x, y) == MulDiv(x, y, Fix)
FDiv(x, y) == MulDiv(x, Fix, y)

\* e^(-n) * Fix for whole n.
ExpNegInt(n) ==
  IF n = 0 THEN 10000 ELSE IF n = 1 THEN 3679 ELSE IF n = 2 THEN 1353
  ELSE IF n = 3 THEN 498 ELSE IF n = 4 THEN 183 ELSE IF n = 5 THEN 67
  ELSE IF n = 6 THEN 25 ELSE IF n = 7 THEN 9 ELSE IF n = 8 THEN 3
  ELSE IF n = 9 THEN 1 ELSE 0

\* Taylor sum of e^(-f) from term number k on, 0 <= f < Fix; term = f^k/k!.
RECURSIVE ExpNegSeries(_, _, _)
ExpNegSeries(f, k, term) ==
  IF term = 0 THEN 0
  ELSE (IF (k % 2) = 0 THEN term ELSE -term)
       + Only({ExpNegSeries(f, k + 1, t) :
                 t \in {MulDiv(term, f, Fix * (k + 1))}})

\* np.exp(-x) for x >= 0.
ExpNeg(x) == FMul(ExpNegInt(x \div Fix), ExpNegSeries(x % Fix, 0, Fix))

\* Internal scale of the logarithm: eight decimals.
Fix2 == Fix * Fix

\* 2*atanh(z) = 2*(z + z^3/3 + z^5/5 + ...), 0 <= z < 1/2; z and pw = z^k
\* are scaled by Fix2.
RECURSIVE AtanhSeries(_, _, _)
AtanhSeries(z, k, pw) ==
  IF pw = 0 \/ k > 25 THEN 0
  ELSE (2 * (pw \div k))
       + Only({AtanhSeries(z, k + 2, p) :
                 p \in {MulDiv(MulDiv(pw, z, Fix2), z, Fix2)}})

\* -ln(y) * Fix2 for 1/e < y <= 1, y scaled by Fix2: 2*atanh((1-y)/(1+y)).
NegLnNear1(y) ==
  Only({AtanhSeries(z, 1, z) : z \in {MulDiv(Fix2 - y, Fix2, Fix2 + y)}})

\* -ln(y) * Fix2 for 0 < y <= 1, y scaled by Fix2: multiply by e until
\* above 1/e.
RECURSIVE NegLnUnit(_)
NegLnUnit(y) ==
  IF y > 36787944 THEN NegLnNear1(y)
  ELSE Only({NegLnUnit(e) : e \in {MulDiv(y, 27183, Fix)}}) + Fix2

\* np.log(x) for x > 0 (x scaled by Fix): zero exactly at x = 1, negative
\* below and positive above.
Ln(x) ==
  IF x = Fix THEN 0
  ELSE IF x < Fix
       THEN -((NegLnUnit(x * Fix) + Fix - 1) \div Fix)
       ELSE (NegLnUnit(MulDiv(Fix2, Fix, x)) + Fix - 1) \div Fix

\* np.exp(x) for any x; above e^9 the value is only known to be large.
Exp(x) ==
  IF x <= 0 THEN ExpNeg(-x)
  ELSE IF ExpNeg(x) = 0 THEN 100000000 ELSE FDiv(Fix, ExpNeg(x))

\* ------------------------------------------------ thermophysical properties

\* sum(composicion.values()), in hundredths of a percent.
SumaComposicion(composicion) ==
  composicion.agua + composicion.proteina + composicion.grasa
  + composicion.carbohidratos + composicion.fibra + composicion.cenizas

\* abs(total_composicion - 100.0) > 0.01
SumaFueraDeTolerancia(total_composicion) ==
  Abs(total_composicion - (100 * 100)) > 1

\* Water: rho_w = 997.18 - 0.0031439*T - 0.0037574*T**2, cp_w = 4180 - 0.5*T,
\* k_w = 0.56 + 0.0018*T, the same expressions at every T.
rho_w(T) ==
  9971800 - MulDiv(T, 31439, 10000000)
  - MulDiv(MulDiv(T, T, 1000000), 37574, 100000)
cp_w(T) == 41800000 - MulDiv(T, 1, 2)
k_w(T) == 5600 + MulDiv(T, 18, 10000)

\* The constant solids: protein, fat, carbohydrate, fibre, ash.
rho_solidos ==
  [proteina |-> 13000000, grasa |-> 9200000, carbohidratos |-> 16000000,
   fibra |-> 15000000, cenizas |-> 20000000]
cp_solidos ==
  [proteina |-> 15500000, grasa |-> 19000000, carbohidratos |-> 15500000,
   fibra |-> 13500000, cenizas |-> 8200000]
k_solidos ==
  [proteina |-> 2500, grasa |-> 1800, carbohidratos |-> 2000,
   fibra |-> 1500, cenizas |-> 3500]

Solidos == {"proteina", "grasa", "carbohidratos", "fibra", "cenizas"}

\* Sum over the five solids of composicion[c]/100 * prop[c]; composicion[c]
\* in hundredths of a percent is the mass fraction scaled by Fix.
SumaSolidos(composicion, prop) ==
  FMul(composicion.proteina, prop.proteina)
  + FMul(composicion.grasa, prop.grasa)
  + FMul(composicion.carbohidratos, prop.carbohidratos)
  + FMul(composicion.fibra, prop.fibra)
  + FMul(composicion.cenizas, prop.cenizas)

\* Sum over the five solids of (composicion[c]/100) / rho[c], scaled 10^9.
SumaInvRhoSolidos(composicion) ==
  MulDiv(composicion.proteina, 1000000000, rho_solidos.proteina)
  + MulDiv(composicion.grasa, 1000000000, rho_solidos.grasa)
  + MulDiv(composicion.carbohidratos, 1000000000, rho_solidos.carbohidratos)
  + MulDiv(composicion.fibra, 1000000000, rho_solidos.fibra)
  + MulDiv(composicion.cenizas, 1000000000, rho_solidos.cenizas)

\* T0_K = 273.15 and the ice constants rho_ice, cp_ice, k_ice.
T0_K == 2731500
rho_ice == 9168000
cp_ice == 20640000
k_ice == 22200

\* (lambda_val/R_gas) * (1/T0_K - 1/T_K), scaled by Fix; the reciprocals are
\* carried with nine decimals.
ExponenteXA(T_K) ==
  MulDiv(MulDiv(1000000000, Fix, T0_K) - MulDiv(1000000000, Fix, T_K),
         MulDiv(6010 * Fix, 1000, 8314), 1000000000)

\* XA as the exponential gives it.
XASinLimite(XA) == XA

\* if XA > 1.0: XA = 1.0
LimitarXA(XA) == IF XA > Fix THEN Fix ELSE XA

\* XA: 0.0001 when T_K <= 0, else the exponential capped at 1.
FraccionMolarAgua(T) ==
  IF T + T0_K <= 0 THEN 1 ELSE LimitarXA(Exp(ExponenteXA(T + T0_K)))

\* The unfrozen branch, T >= Tf: weighted sums of the component values.
PropiedadesNoCongelado(composicion, T) ==
  [densidad |-> FMul(composicion.agua, rho_w(T))
                + SumaSolidos(composicion, rho_solidos),
   cp |-> FMul(composicion.agua, cp_w(T)) + SumaSolidos(composicion, cp_solidos),
   k  |-> FMul(composicion.agua, k_w(T)) + SumaSolidos(composicion, k_solidos),
   fraccion_hielo |-> 0,
   fraccion_agua_no_congelada |-> composicion.agua]

\* densidad = 1 / sum_inv_rho_frac if sum_inv_rho_frac > 0 else 0
DensidadCongelado(sum_inv_rho_frac) ==
  IF sum_inv_rho_frac > 0 THEN MulDiv(1000000000, Fix, sum_inv_rho_frac) ELSE 0

\* The mixture of ice, unfrozen water and solids once the unfrozen water
\* fraction is known.
MezclaCongelada(composicion, T, fraccion_agua_no_congelada) ==
  LET fraccion_hielo == composicion.agua - fraccion_agua_no_congelada
  IN [densidad |-> DensidadCongelado(
                     MulDiv(fraccion_hielo, 1000000000, rho_ice)
                     + MulDiv(fraccion_agua_no_congelada, 1000000000, rho_w(T))
                     + SumaInvRhoSolidos(composicion)),
      cp |-> FMul(fraccion_hielo, cp_ice)
             + FMul(fraccion_agua_no_congelada, cp_w(T))
             + SumaSolidos(composicion, cp_solidos),
      k  |-> FMul(fraccion_hielo, k_ice)
             + FMul(fraccion_agua_no_congelada, k_w(T))
             + SumaSolidos(composicion, k_solidos),
      fraccion_hielo |-> fraccion_hielo,
      fraccion_agua_no_congelada |-> fraccion_agua_no_congelada]

\* The frozen branch, T < Tf: fraccion_agua_no_congelada = mu_agua_inicial * XA.
PropiedadesCongelado(composicion, T) ==
  Only({MezclaCongelada(composicion, T, u) :
          u \in {FMul(composicion.agua, FraccionMolarAgua(T))}})

\* alpha_val = k / (densidad * cp) if (densidad * cp) > 0 else 0, in units
\* of 10^-11 m2/s.
Difusividad(k, densidad, cp) ==
  IF Sgn(densidad) * Sgn(cp) > 0
  THEN MulDiv(MulDiv(k, 1000000000, densidad), 1000000, cp) ELSE 0

\* The values returned, alpha_val among them, from those of the branch taken.
PropiedadesConAlpha(m, congelado) ==
  [kind |-> "tuple", densidad |-> m.densidad, cp |-> m.cp, k |-> m.k,
   alpha |-> Difusividad(m.k, m.densidad, m.cp),
   fraccion_hielo |-> m.fraccion_hielo,
   fraccion_agua_no_congelada |-> m.fraccion_agua_no_congelada,
   congelado |-> congelado]

\* calcular_propiedades_alimento(composicion, T, Tf): the function tests
\* nothing about the composition and always returns its values.
calcular_propiedades_alimento(composicion, T, Tf) ==
  Only({PropiedadesConAlpha(m, T < Tf) :
          m \in {IF T >= Tf THEN PropiedadesNoCongelado(composicion, T)
                            ELSE PropiedadesCongelado(composicion, T)}})

\* ------------------------------------------------- Heisler coefficients

\* The three geometries offered by the selectbox.
Geometrias == {"Placa Plana", "Cilindro", "Esfera"}

\* bi_vals, the same breakpoints for the three geometries.
bi_vals ==
  <<100, 200, 400, 600, 800, 1000, 2000, 4000, 6000, 8000, 10000, 20000,
    30000, 40000, 50000, 80000, 100000, 200000, 300000, 400000, 500000,
    1000000, 5000000, 10000000>>

lambda1_vals(geometria) ==
  IF geometria = "Placa Plana" THEN
    <<998, 1410, 1987, 2425, 2791, 3111, 4328, 6115, 7496, 8603, 9408,
      11593, 12746, 13525, 14078, 14961, 15202, 15585, 15694, 15707, 15707,
      15708, 15708, 15708>>
  ELSE IF geometria = "Cilindro" THEN
    <<1412, 1995, 2814, 3430, 3951, 4388, 6170, 8516, 9926, 11081, 12558,
      14793, 16373, 17640, 18710, 20720, 21795, 23486, 23809, 23924, 23972,
      24029, 24048, 24048>>
  ELSE
    <<1730, 2445, 3450, 4206, 4841, 5375, 7593, 10767, 13037, 14962, 15708,
      20288, 22789, 24566, 25704, 27661, 28363, 29730, 30200, 30450, 30590,
      30900, 31416, 31416>>

A1_vals(geometria) ==
  IF geometria = "Placa Plana" THEN
    <<10000, 10001, 10002, 10003, 10005, 10006, 10016, 10063, 10140, 10247,
      10385, 11145, 11895, 12621, 13315, 14800, 15471, 17240, 18080, 18540,
      18840, 19780, 19999, 20000>>
  ELSE IF geometria = "Cilindro" THEN
    <<10000, 10001, 10003, 10005, 10008, 10011, 10040, 10159, 10311, 10494,
      10701, 11643, 12488, 13259, 13965, 15791, 16934, 19472, 20768, 21461,
      21899, 23168, 24020, 24020>>
  ELSE
    <<10000, 10001, 10003, 10006, 10010, 10015, 10059, 10232, 10505, 10852,
      11275, 13090, 14793, 16373, 17820, 21130, 22980, 27560, 29340, 30260,
      30800, 31400, 31416, 31416>>

\* np.interp(x, xp, fp): the end values outside the table, the straight
\* line between the two neighbouring breakpoints inside it.
interp(x, xp, fp) ==
  IF x <= xp[1] THEN fp[1]
  ELSE IF x >= xp[Len(xp)] THEN fp[Len(fp)]
  ELSE LET i == CHOOSE j \in 1..(Len(xp) - 1) : xp[j] <= x /\ x < xp[j + 1]
       IN fp[i] + MulDiv(x - xp[i], fp[i + 1] - fp[i], xp[i + 1] - xp[i])

\* The limits of the two outer branches: Bi < 0.001 and Bi > 1000.
BiLumped == 10
BiInfinite == 10000000

\* calcular_lambda1_A1(Bi, geometria) -> [lambda1, A1].
calcular_lambda1_A1(Bi, geometria) ==
  IF Bi < BiLumped THEN [lambda1 |-> 10, A1 |-> Fix]
  ELSE IF Bi > BiInfinite THEN
    IF geometria = "Placa Plana" THEN [lambda1 |-> 15708, A1 |-> 12732]
    ELSE IF geometria = "Cilindro"
      THEN [lambda1 |-> 24048, A1 |-> FDiv(2 * Fix, 24048)]
      ELSE [lambda1 |-> 31416, A1 |-> 2 * Fix]
  ELSE [lambda1 |-> interp(Bi, bi_vals, lambda1_vals(geometria)),
        A1      |-> interp(Bi, bi_vals, A1_vals(geometria))]

\* ---------------------------------------------------- Heisler operations

\* What a call leaves behind: the Python value returned (kind "None", a
\* tuple of numbers "tuple" with its fields in v, a tuple of None values
\* "NoneTuple", or an uncaught "TypeError"), the st.error / st.warning
\* messages shown, and the quantities computed on the way.
Result(kind, v, msgs, did) ==
  [kind |-> kind, v |-> v, msgs |-> msgs, did |-> did]

NoCall == Result("nocall", <<>>, {}, {})

\* if dimension_a == 0
DimensionEsCero(dimension_a) == dimension_a = 0

\* if k_alimento_medio == 0
ConductividadEsCero(k_alimento_medio) == k_alimento_medio = 0

\* if alpha_alimento_medio == 0
DifusividadEsCero(alpha_alimento_medio) == alpha_alimento_medio = 0

\* if (T_inicial_alimento - T_medio) == 0
SinDiferenciaTermica(T_inicial_alimento, T_medio) ==
  (T_inicial_alimento - T_medio) = 0

\* Bi = (h * Lc) / k_alimento_medio, with Lc = dimension_a.
Biot(h, Lc, k_alimento_medio) == MulDiv(h * Lc, Fix, k_alimento_medio)

\* Fo = (alpha_alimento_medio * t_segundos) / (Lc**2), scaled by FoFix.
Fourier(alpha_alimento_medio, t_segundos, Lc) ==
  MulDiv(alpha_alimento_medio, t_segundos, Lc * Lc * 10)

\* if Fo < 0.2
FoBajo(Fo) == Fo < (2 * FoFix) \div 10

FoWarning(Fo) == IF FoBajo(Fo) THEN {"warning: Fo < 0.2"} ELSE {}

\* lambda1**2 * Fo, scaled by Fix.
Lambda1CuadradoFo(lambda1, Fo) == MulDiv(lambda1 * lambda1, Fo, 1000000)

\* A1 * np.exp(-lambda1**2 * Fo); Fo < 0 cannot arise from t, alpha >= 0.
SerieUnTermino(A1, lambda1, Fo) ==
  FMul(A1, ExpNeg(Lambda1CuadradoFo(lambda1, Fo)))

\* np.clip(x, lo, hi)
clip(x, lo, hi) == IF x < lo THEN lo ELSE IF x > hi THEN hi ELSE x

\* T_medio + theta * (T_inicial_alimento - T_medio)
TemperaturaDesdeTheta(theta, T_inicial_alimento, T_medio) ==
  T_medio + FMul(theta, T_inicial_alimento - T_medio)

\* The rest of calcular_temperatura_final_punto_frio once Bi, Fo and the
\* coefficients c = (lambda1, A1) are computed.
PuntoFrioCon(T_inicial_alimento, T_medio, Bi, Fo, c) ==
  IF SinDiferenciaTermica(T_inicial_alimento, T_medio)
  THEN Result("tuple", <<T_inicial_alimento, Fo, Bi, c.A1, c.lambda1>>,
              FoWarning(Fo) \cup {"warning: T inicial igual a T medio"},
              {"Bi", "Fo", "lambda1_A1"})
  ELSE Result("tuple",
              <<TemperaturaDesdeTheta(
                  clip(SerieUnTermino(c.A1, c.lambda1, Fo), 0, Fix),
                  T_inicial_alimento, T_medio),
                Fo, Bi, c.A1, c.lambda1>>,
              FoWarning(Fo), {"Bi", "Fo", "lambda1_A1"})

\* calcular_temperatura_final_punto_frio: (T_final_centro, Fo, Bi, A1,
\* lambda1).  np.exp raises neither OverflowError nor RuntimeWarning, so
\* the two except clauses are never entered.
calcular_temperatura_final_punto_frio(t_segundos, T_inicial_alimento, T_medio, alpha_alimento_medio, k_alimento_medio, h, geometria, dimension_a) ==
  IF DimensionEsCero(dimension_a)
  THEN Result("None", <<>>, {"error: a es cero"}, {})
  ELSE IF ConductividadEsCero(k_alimento_medio)
  THEN Result("None", <<>>, {"error: k es cero"}, {})
  ELSE Only({PuntoFrioCon(T_inicial_alimento, T_medio, b[1], b[2], b[3]) :
               b \in {<<Biot(h, dimension_a, k_alimento_medio),
                        Fourier(alpha_alimento_medio, t_segundos, dimension_a),
                        calcular_lambda1_A1(
                          Biot(h, dimension_a, k_alimento_medio),
                          geometria)>>}})

\* The range checks with the two upper limits left out.
ObjetivoSoloLimiteInferior(T_final_alimento, T_inicial_alimento, T_medio) ==
  \/ T_medio > T_inicial_alimento /\ T_final_alimento < T_inicial_alimento
  \/ T_medio < T_inicial_alimento /\ T_final_alimento < T_medio

\* The four range checks on the target: heating asks for a target between
\* T_inicial and T_medio, cooling likewise.
ObjetivoFueraDeRango(T_final_alimento, T_inicial_alimento, T_medio) ==
  LET is_heating == T_medio > T_inicial_alimento
      is_cooling == T_medio < T_inicial_alimento
  IN \/ is_heating /\ T_final_alimento < T_inicial_alimento
     \/ is_heating /\ T_final_alimento > T_medio
     \/ is_cooling /\ T_final_alimento > T_inicial_alimento
     \/ is_cooling /\ T_final_alimento < T_medio

\* theta_theta_i_target = (T_final_alimento - T_medio) / denom
ThetaTarget(T_final_alimento, T_inicial_alimento, T_medio) ==
  FDiv(T_final_alimento - T_medio, T_inicial_alimento - T_medio)

\* if log_arg <= 0
LogArgNoPositivo(log_arg) == log_arg <= 0

\* Fo = - (1 / (lambda1**2)) * np.log(log_arg), scaled by FoFix.
FourierInverso(lambda1, log_arg) ==
  MulDiv(-Ln(log_arg), 1000000, lambda1 * lambda1)

\* The inverse solve without its test on the sign of Fo.
TiempoNegativoSinComprobar(Fo) == FALSE

\* if Fo < 0
TiempoNegativo(Fo) == Fo < 0

\* t_minutos = ((Fo * Lc**2) / alpha_alimento_medio) / 60, whole minutes.
TiempoMinutos(Fo, Lc, alpha_alimento_medio) ==
  MulDiv(Fo, Lc * Lc * 10, alpha_alimento_medio * 60)

\* The rest of calcular_tiempo_para_temperatura once Fo is computed.
TiempoConFourier(alpha_alimento_medio, Lc, Bi, c, Fo) ==
  IF TiempoNegativo(Fo)
  THEN Result("NoneTuple", <<>>, {"error: tiempo negativo"},
              {"Bi", "lambda1_A1", "Fo"})
  ELSE IF DifusividadEsCero(alpha_alimento_medio)
  THEN Result("NoneTuple", <<>>, FoWarning(Fo) \cup {"error: alpha es cero"},
              {"Bi", "lambda1_A1", "Fo"})
  ELSE Result("tuple",
              <<TiempoMinutos(Fo, Lc, alpha_alimento_medio), Fo, Bi, c.A1,
                c.lambda1>>,
              FoWarning(Fo), {"Bi", "lambda1_A1", "Fo"})

\* ... once log_arg = theta_theta_i_target / A1 is computed.
TiempoConLogArg(alpha_alimento_medio, Lc, Bi, c, log_arg) ==
  IF LogArgNoPositivo(log_arg)
  THEN Result("NoneTuple", <<>>, {"error: T final no alcanzable"},
              {"Bi", "lambda1_A1"})
  ELSE Only({TiempoConFourier(alpha_alimento_medio, Lc, Bi, c, Fo) :
               Fo \in {FourierInverso(c.lambda1, log_arg)}})

\* ... once Bi and the coefficients are computed.
TiempoConCoeficientes(theta_theta_i_target, alpha_alimento_medio, Lc, Bi, c) ==
  Only({TiempoConLogArg(alpha_alimento_medio, Lc, Bi, c, log_arg) :
          log_arg \in {FDiv(theta_theta_i_target, c.A1)}})

\* calcular_tiempo_para_temperatura: (t_minutos, Fo, Bi, A1, lambda1).
\* The test denom == 0 after the lookup repeats the one at the top and is
\* never true there.
calcular_tiempo_para_temperatura(T_final_alimento, T_inicial_alimento, T_medio, alpha_alimento_medio, k_alimento_medio, h, geometria, dimension_a) ==
  IF DimensionEsCero(dimension_a)
  THEN Result("None", <<>>, {"error: a es cero"}, {})
  ELSE IF SinDiferenciaTermica(T_inicial_alimento, T_medio)
  THEN Result("tuple", <<0, 0, 0, 0, 0>>,
              {"warning: T inicial igual a T medio"}, {})
  ELSE IF ObjetivoFueraDeRango(T_final_alimento, T_inicial_alimento, T_medio)
  THEN Result("NoneTuple", <<>>, {"error: T final fuera de rango"}, {})
  ELSE IF ConductividadEsCero(k_alimento_medio)
  THEN Result("NoneTuple", <<>>, {"error: k es cero"}, {})
  ELSE Only({TiempoConCoeficientes(
               ThetaTarget(T_final_alimento, T_inicial_alimento, T_medio),
               alpha_alimento_medio, dimension_a, b[1], b[2]) :
               b \in {<<Biot(h, dimension_a, k_alimento_medio),
                        calcular_lambda1_A1(
                          Biot(h, dimension_a, k_alimento_medio),
                          geometria)>>}})

\* Alternating Taylor sum term - term*z^2/((k+1)(k+2)) + ..., z2 = z^2.
RECURSIVE TrigSeries(_, _, _, _)
TrigSeries(z2, k, term, sign) ==
  IF term = 0 THEN 0
  ELSE (sign * term)
       + Only({TrigSeries(z2, k + 2, t, -sign) :
                 t \in {MulDiv(term, z2, Fix * (k + 1) * (k + 2))}})

\* np.cos(z) and np.sin(z) for 0 <= z <= pi.
Cos(z) == Only({TrigSeries(z2, 0, Fix, 1) : z2 \in {FMul(z, z)}})
Sin(z) == Only({TrigSeries(z2, 1, z, 1) : z2 \in {FMul(z, z)}})

\* if posicion_x > dimension_a ... if posicion_x < 0
PosicionFueraDelAlimento(posicion_x, dimension_a) ==
  posicion_x > dimension_a \/ posicion_x < 0

\* The position factor of 'Placa Plana' and 'Esfera' before clipping;
\* np.isclose(z, 0) holds for |z| <= 1e-8, which is z = 0 at four decimals.
FactorPosicion(geometria, lambda1, x_over_Lc) ==
  LET z == FMul(lambda1, x_over_Lc)
  IN IF geometria = "Placa Plana" THEN Cos(z)
     ELSE IF z = 0 THEN Fix ELSE FDiv(Sin(z), z)

\* J0 is scipy.special.jv, the Bessel function jv(v, z) of two arguments;
\* the call J0(lambda1 * x_over_Lc) passes one and raises TypeError.
J0Raises(geometria) == geometria = "Cilindro"

\* The tuple returned by calcular_temperatura_posicion for the clipped
\* position_factor.
PosicionConFactor(T_inicial_alimento, T_medio, Bi, Fo, c, position_factor) ==
  Result("tuple",
         <<TemperaturaDesdeTheta(
             FMul(SerieUnTermino(c.A1, c.lambda1, Fo), position_factor),
             T_inicial_alimento, T_medio),
           Fo, Bi, c.A1, c.lambda1, position_factor>>,
         FoWarning(Fo), {"Bi", "Fo", "lambda1_A1"})

\* The rest of calcular_temperatura_posicion once Bi, Fo and the
\* coefficients are computed.
PosicionCon(T_inicial_alimento, T_medio, geometria, x_over_Lc, Bi, Fo, c) ==
  IF SinDiferenciaTermica(T_inicial_alimento, T_medio)
  THEN Result("tuple", <<T_inicial_alimento, Fo, Bi, c.A1, c.lambda1, Fix>>,
              FoWarning(Fo) \cup {"warning: T inicial igual a T medio"},
              {"Bi", "Fo", "lambda1_A1"})
  ELSE IF J0Raises(geometria)
  THEN Result("TypeError", <<>>, FoWarning(Fo), {"Bi", "Fo", "lambda1_A1"})
  ELSE Only({PosicionConFactor(T_inicial_alimento, T_medio, Bi, Fo, c, pf) :
               pf \in {clip(FactorPosicion(geometria, c.lambda1, x_over_Lc),
                            0, Fix)}})

\* calcular_temperatura_posicion: (T_final_x, Fo, Bi, A1, lambda1,
\* position_factor).  Lc == 0 cannot hold after the first test.
calcular_temperatura_posicion(t_segundos, T_inicial_alimento, T_medio, alpha_alimento_medio, k_alimento_medio, h, geometria, dimension_a, posicion_x) ==
  IF DimensionEsCero(dimension_a)
  THEN Result("None", <<>>, {"error: a es cero"}, {})
  ELSE IF PosicionFueraDelAlimento(posicion_x, dimension_a)
  THEN Result("None", <<>>, {"error: x fuera del alimento"}, {})
  ELSE IF ConductividadEsCero(k_alimento_medio)
  THEN Result("None", <<>>, {"error: k es cero"}, {})
  ELSE Only({PosicionCon(T_inicial_alimento, T_medio, geometria,
                         FDiv(posicion_x, dimension_a), b[1], b[2], b[3]) :
               b \in {<<Biot(h, dimension_a, k_alimento_medio),
                        Fourier(alpha_alimento_medio, t_segundos, dimension_a),
                        calcular_lambda1_A1(
                          Biot(h, dimension_a, k_alimento_medio),
                          geometria)>>}})

\* ------------------------------------------------- Plank and PMs

\* The factors left at their initial values for every geometry.
FactoresPlankSinGeometria(geometria_plank) == [P |-> 0, R |-> 0]

\* The geometric factors P_plank, R_plank.
FactoresPlank(geometria_plank) ==
  IF geometria_plank = "Placa Plana" THEN [P |-> 5000, R |-> 1250]
  ELSE IF geometria_plank = "Cilindro" THEN [P |-> 2500, R |-> 625]
  ELSE IF geometria_plank = "Esfera" THEN [P |-> 1667, R |-> 417]
  ELSE [P |-> 0, R |-> 0]

\* t_minutos_plank = (L_e/delta_T) * (P*a/h + R*a**2/kf) / 60, scaled by
\* Fix; L_e in whole J/kg; the bracket is carried with nine decimals.
TiempoPlank(L_e, delta_T, f, dimension_a_plank, h_congelacion, k_alimento_congelado) ==
  LET term1 == MulDiv(L_e, 1000000, delta_T)
      term2 == MulDiv(f.P * dimension_a_plank, 10, h_congelacion)
      term3 == MulDiv(f.R * dimension_a_plank * dimension_a_plank, 10,
                      k_alimento_congelado)
  IN MulDiv(term1, term2 + term3, 600000000)

\* calcular_tiempo_congelacion_plank: (t_minutos_plank, P_plank, R_plank,
\* L_e).  The second test on delta_T repeats the first; no division by zero
\* is left for the except clauses.
calcular_tiempo_congelacion_plank(Tf_input, T_ambiente_congelacion, h_congelacion, k_alimento_congelado, L_e, geometria_plank, dimension_a_plank) ==
  IF dimension_a_plank = 0
  THEN Result("None", <<>>, {"error: a es cero"}, {})
  ELSE IF Tf_input <= T_ambiente_congelacion
  THEN Result("None", <<>>, {"error: Tf no mayor que Ta"}, {})
  ELSE IF h_congelacion = 0
  THEN Result("NoneTuple", <<>>, {"error: h es cero"}, {})
  ELSE IF k_alimento_congelado = 0
  THEN Result("NoneTuple", <<>>, {"error: kf es cero"}, {})
  ELSE
    LET f == FactoresPlank(geometria_plank)
    IN Result("tuple",
              <<TiempoPlank(L_e, Tf_input - T_ambiente_congelacion, f,
                            dimension_a_plank, h_congelacion,
                            k_alimento_congelado),
                f.P, f.R, L_e>>,
              {}, {})

\* PM_agua = 18.015 g/mol
PM_agua == 180150

\* if pm_s < 0: warning and None; else pm_s.
PMsValor(pm_s) ==
  IF pm_s < 0 THEN Result("None", <<>>, {"warning: PMs negativo"}, {})
  ELSE Result("value", <<pm_s>>, {}, {})

\* pm_s = (XA * m_s * PM_agua) / denominator, with the products XA * m_s
\* and denominator = m_u * (1 - XA) both carried at scale Fix2.
PMsFormula(m_u, XA) == MulDiv(XA * (Fix - m_u), PM_agua, m_u * (Fix - XA))

\* The rest of the function without the test on m_u and m_s.
PMsSinComprobarFracciones(m_u, XA) ==
  IF XA >= Fix
  THEN Result("inf", <<>>, {"warning: XA >= 1"}, {})
  ELSE IF m_u * (Fix - XA) <= 0
  THEN Result("None", <<>>, {"error: denominador no positivo"}, {})
  ELSE PMsValor(PMsFormula(m_u, XA))

\* The rest of calcular_pm_solido_aparente once XA is computed; m_u is
\* porcentaje_agua / 100.
PMsConXA(m_u, XA) ==
  IF XA >= Fix
  THEN Result("inf", <<>>, {"warning: XA >= 1"}, {})
  ELSE IF m_u <= 0 \/ (Fix - m_u) <= 0
  THEN Result("None", <<>>, {"error: agua o solidos no validos"}, {})
  ELSE IF m_u * (Fix - XA) <= 0
  THEN Result("None", <<>>, {"error: denominador no positivo"}, {})
  ELSE PMsValor(PMsFormula(m_u, XA))

\* calcular_pm_solido_aparente(Tf_input, porcentaje_agua): float('inf'),
\* None or pm_s.
calcular_pm_solido_aparente(Tf_input, porcentaje_agua) ==
  IF Tf_input >= 0
  THEN Result("inf", <<>>, {"warning: Tf >= 0"}, {})
  ELSE IF Tf_input + T0_K <= 0
  THEN Result("None", <<>>, {"error: Tf en Kelvin no valida"}, {})
  ELSE Only({PMsConXA(porcentaje_agua, XA) :
               XA \in {Exp(ExponenteXA(Tf_input + T0_K))}})

\* ------------------------------------------------------ Streamlit script

TiposPropiedades == {"Propiedades a T > 0", "Propiedades a T < 0"}
TiposHeisler == {"Temperatura final en el punto frio", "Tiempo de proceso",
                 "Temperatura en una posicion"}
TipoPlank == "Tiempo de congelacion"
TipoPMs == "Peso Molecular Aparente del Solido"
TiposDeCalculo == TiposPropiedades \cup TiposHeisler \cup {TipoPlank, TipoPMs}

\* The variables the script initialises before the forms are drawn.
VariablesIniciales ==
  [T_prop |-> 0, T_inicial_alimento |-> 0, T_medio |-> 0, h |-> 0,
   geometria |-> "Placa Plana", dimension_a |-> 0, t_minutos |-> 0,
   posicion_x |-> 0, T_final_alimento |-> 0, T_ambiente_congelacion |-> 0,
   h_congelacion |-> 0, geometria_plank |-> "Placa Plana",
   dimension_a_plank |-> 0]

\* The value= of every number_input and the first option of every selectbox.
ValoresPorDefecto ==
  [T_prop |-> 20 * Fix, T_inicial_alimento |-> 20 * Fix, T_medio |-> 80 * Fix,
   h |-> 100, geometria |-> "Placa Plana", dimension_a |-> 200,
   t_minutos |-> 30, posicion_x |-> 100, T_final_alimento |-> 60 * Fix,
   T_ambiente_congelacion |-> -20 * Fix, h_congelacion |-> 20,
   geometria_plank |-> "Placa Plana", dimension_a_plank |-> 200]

\* The widgets the forms of a calculation type draw.
ComunesHeisler ==
  {"T_inicial_alimento", "T_medio", "h", "geometria", "dimension_a"}
WidgetsDe(tipo) ==
  IF tipo \in TiposPropiedades THEN {"T_prop"}
  ELSE IF tipo = "Temperatura final en el punto frio"
    THEN ComunesHeisler \cup {"t_minutos"}
  ELSE IF tipo = "Tiempo de proceso"
    THEN ComunesHeisler \cup {"T_final_alimento"}
  ELSE IF tipo = "Temperatura en una posicion"
    THEN ComunesHeisler \cup {"t_minutos", "posicion_x"}
  ELSE IF tipo = TipoPlank
    THEN {"T_ambiente_congelacion", "h_congelacion", "geometria_plank",
          "dimension_a_plank"}
  ELSE {}

\* The value of T_prop's widget differs between the two property forms.
DefectoDe(tipo, campo) ==
  IF campo = "T_prop" /\ tipo = "Propiedades a T < 0" THEN -10 * Fix
  ELSE ValoresPorDefecto[campo]

\* The parameters after the radio changes from `antes` to `tipo`: a widget
\* drawn under the same key in both keeps its value (the five common Heisler
\* inputs), a widget newly drawn shows its default, and what is not drawn
\* keeps the value the script initialised it with.
ParametrosAlCambiar(antes, tipo, p) ==
  [campo \in DOMAIN VariablesIniciales |->
     IF campo \notin WidgetsDe(tipo) THEN VariablesIniciales[campo]
     ELSE IF campo \in WidgetsDe(antes) /\ campo \in ComunesHeisler
     THEN p[campo]
     ELSE DefectoDe(tipo, campo)]

\* One call of the aggregator as the run records it.
LlamadaAgregador(linea, fase, composicion, T, Tf) ==
  [linea |-> linea, fase |-> fase,
   suma_invalida |-> SumaFueraDeTolerancia(SumaComposicion(composicion)),
   kind |-> calcular_propiedades_alimento(composicion, T, Tf).kind]

\* (T_inicial_alimento + T_medio) / 2
TemperaturaMedia(p) == MulDiv(p.T_inicial_alimento + p.T_medio, 1, 2)

\* T_kf_plank taken at Tf itself.
TemperaturaKfPlankEnTf(Tf_input, T_ambiente_congelacion) == Tf_input

\* T_kf_plank: the midpoint of Tf and Ta, or Tf - 2 when that lies above Tf.
TemperaturaKfPlank(Tf_input, T_ambiente_congelacion) ==
  LET m == MulDiv(Tf_input + T_ambiente_congelacion, 1, 2)
  IN IF m > Tf_input THEN Tf_input - (2 * Fix) ELSE m

\* L_e = (composicion['agua'] / 100) * 333.6e3
CalorLatenteEfectivo(composicion) == MulDiv(composicion.agua, 333600, Fix)

\* What the forms show and compute while they are drawn, whether or not the
\* button is pressed: the messages, and the aggregator calls made for the
\* Heisler mean properties and for Plank's k_f.
DibujarFormularios(composicion, Tf_input, tipo, p) ==
  LET total == SumaComposicion(composicion)
      suma  == IF SumaFueraDeTolerancia(total)
               THEN {"warning: la composicion no suma 100"}
               ELSE {"success: composicion ajustada al 100"}
      T_avg == TemperaturaMedia(p)
      cruza == ~ \/ (p.T_medio >= Tf_input /\ p.T_inicial_alimento >= Tf_input)
                 \/ (p.T_medio < Tf_input /\ p.T_inicial_alimento < Tf_input)
      T_kf  == TemperaturaKfPlank(Tf_input, p.T_ambiente_congelacion)
  IN IF tipo = "Propiedades a T > 0"
     THEN [msgs |-> suma \cup (IF p.T_prop < Tf_input
                               THEN {"warning: T en zona congelada"} ELSE {}),
           agg |-> {}]
     ELSE IF tipo = "Propiedades a T < 0"
     THEN [msgs |-> suma \cup (IF p.T_prop >= Tf_input
                               THEN {"warning: T sin hielo"} ELSE {}),
           agg |-> {}]
     ELSE IF tipo \in TiposHeisler
     THEN [msgs |-> suma
             \cup (IF p.h = 0 THEN {"warning: h es cero"} ELSE {})
             \cup (IF p.dimension_a = 0 THEN {"error: a es cero"} ELSE {})
             \cup (IF cruza THEN {"warning: cruza la zona de congelacion"}
                   ELSE {})
             \cup (IF /\ tipo = "Tiempo de proceso"
                      /\ \/ /\ p.T_inicial_alimento <= p.T_medio
                            /\ p.T_final_alimento < p.T_inicial_alimento
                         \/ /\ p.T_inicial_alimento >= p.T_medio
                            /\ p.T_final_alimento > p.T_inicial_alimento
                   THEN {"error: T final fuera de rango"} ELSE {})
             \cup (IF /\ tipo = "Temperatura en una posicion"
                      /\ p.posicion_x > p.dimension_a
                   THEN {"error: x fuera del alimento"} ELSE {}),
           agg |-> {LlamadaAgregador(609, "formularios", composicion, T_avg,
                                     Tf_input),
                    LlamadaAgregador(610, "formularios", composicion, T_avg,
                                     Tf_input)}]
     ELSE IF tipo = TipoPlank
     THEN [msgs |-> suma
             \cup (IF p.h_congelacion = 0 THEN {"error: h es cero"} ELSE {})
             \cup (IF p.dimension_a_plank = 0 THEN {"error: a es cero"}
                   ELSE {}),
           agg |-> {LlamadaAgregador(644, "formularios", composicion, T_kf,
                                     Tf_input)}]
     ELSE [msgs |-> suma, agg |-> {}]

\* The button's block without its guard on the composition.
BotonSinComprobacion(composicion) == FALSE

\* if abs(total_composicion - 100.0) > 0.01 in the button's block.
BotonRechazaComposicion(composicion) ==
  SumaFueraDeTolerancia(SumaComposicion(composicion))

\* if result:  -- None is false, any 4-, 5- or 6-tuple is true.
Truthy(result) == result.kind \in {"tuple", "NoneTuple"}

\* The outcome of the button's block.
Salida(msgs, agg, invocadas, result, exito, excepcion) ==
  [msgs |-> msgs, agg |-> agg, invocadas |-> invocadas, result |-> result,
   exito |-> exito, excepcion |-> excepcion]

SinPulsar == Salida({}, {}, {}, NoCall, FALSE, FALSE)

\* The operation a Heisler branch calls with the mean properties prop.
LlamadaHeisler(tipo, p, prop) ==
  IF tipo = "Temperatura final en el punto frio"
  THEN calcular_temperatura_final_punto_frio(p.t_minutos * 60,
         p.T_inicial_alimento, p.T_medio, prop.alpha, prop.k, p.h,
         p.geometria, p.dimension_a)
  ELSE IF tipo = "Tiempo de proceso"
  THEN calcular_tiempo_para_temperatura(p.T_final_alimento,
         p.T_inicial_alimento, p.T_medio, prop.alpha, prop.k, p.h,
         p.geometria, p.dimension_a)
  ELSE calcular_temperatura_posicion(p.t_minutos * 60, p.T_inicial_alimento,
         p.T_medio, prop.alpha, prop.k, p.h, p.geometria, p.dimension_a,
         p.posicion_x)

FuncionHeisler(tipo) ==
  IF tipo = "Temperatura final en el punto frio"
  THEN "calcular_temperatura_final_punto_frio"
  ELSE IF tipo = "Tiempo de proceso" THEN "calcular_tiempo_para_temperatura"
  ELSE "calcular_temperatura_posicion"

\* The line of the first of the two aggregator calls of a Heisler branch.
LineaHeisler(tipo) ==
  IF tipo = "Temperatura final en el punto frio" THEN 684
  ELSE IF tipo = "Tiempo de proceso" THEN 702 ELSE 720

\* if result: unpack and st.success; 'Tiempo de proceso' also asks that the
\* time is not None.
SalidaHeisler(tipo, agg, result) ==
  Salida(result.msgs, agg, {FuncionHeisler(tipo)}, result,
         Truthy(result) /\ (tipo = "Tiempo de proceso"
                              => result.kind # "NoneTuple"),
         result.kind = "TypeError")

\* The three Heisler branches of the button's block: the mean properties
\* are computed again, then the selected operation is called.
BotonHeisler(composicion, Tf_input, tipo, p) ==
  Only({SalidaHeisler(tipo,
          {LlamadaAgregador(LineaHeisler(tipo), "boton", composicion,
                            TemperaturaMedia(p), Tf_input),
           LlamadaAgregador(LineaHeisler(tipo) + 1, "boton", composicion,
                            TemperaturaMedia(p), Tf_input)},
          result) :
        result \in {LlamadaHeisler(tipo, p, prop) :
                      prop \in {calcular_propiedades_alimento(composicion,
                                  TemperaturaMedia(p), Tf_input)}}})

\* if result: unpack and format with :.2f, which raises TypeError on None.
SalidaPlank(agg, result) ==
  Salida(result.msgs, agg, {"calcular_tiempo_congelacion_plank"}, result,
         result.kind = "tuple", result.kind = "NoneTuple")

\* The Plank branch.
BotonPlank(composicion, Tf_input, p) ==
  Only({SalidaPlank(
          {LlamadaAgregador(741, "boton", composicion,
             TemperaturaKfPlank(Tf_input, p.T_ambiente_congelacion),
             Tf_input)},
          result) :
        result \in {calcular_tiempo_congelacion_plank(Tf_input,
                      p.T_ambiente_congelacion, p.h_congelacion, prop.k,
                      CalorLatenteEfectivo(composicion), p.geometria_plank,
                      p.dimension_a_plank) :
                    prop \in {calcular_propiedades_alimento(composicion,
                                TemperaturaKfPlank(Tf_input,
                                  p.T_ambiente_congelacion),
                                Tf_input)}}})

\* if pm_s_result is not None: st.success.
SalidaPMs(pm_s_result) ==
  Salida(pm_s_result.msgs, {}, {"calcular_pm_solido_aparente"}, pm_s_result,
         pm_s_result.kind # "None", FALSE)

\* if st.button("Realizar Calculo"): the block run when the button is pressed.
RealizarCalculo(composicion, Tf_input, tipo, p) ==
  IF BotonRechazaComposicion(composicion)
  THEN Salida({"error: ajusta la composicion al 100"}, {}, {}, NoCall, FALSE,
              FALSE)
  ELSE IF tipo \in TiposPropiedades
  THEN Salida({}, {LlamadaAgregador(674, "boton", composicion, p.T_prop,
                                    Tf_input)},
              {}, NoCall, TRUE, FALSE)
  ELSE IF tipo \in TiposHeisler
  THEN BotonHeisler(composicion, Tf_input, tipo, p)
  ELSE IF tipo = TipoPlank
  THEN BotonPlank(composicion, Tf_input, p)
  ELSE Only({SalidaPMs(r) :
               r \in {calcular_pm_solido_aparente(Tf_input, composicion.agua)}})

\* ------------------------------------------------------------- the state

VARIABLES
  composicion,        \* the six percentages, in hundredths of a percent
  Tf_input,           \* initial freezing temperature
  calculation_type,   \* the radio's selection
  parametros,         \* the inputs of section 4 as the script holds them
  formularios,        \* what the last run showed while drawing the forms
  salida,             \* what the button's block did in the last run
  llamada,            \* a direct call of a Heisler operation: its arguments
  retorno,            \* ... what it returned
  previa              \* ... and the call whose result was fed into it

vars == <<composicion, Tf_input, calculation_type, parametros, formularios,
          salida, llamada, retorno, previa>>

app == <<composicion, Tf_input, calculation_type, parametros, formularios,
         salida>>
directa == <<llamada, retorno, previa>>

\* ------------------------------------------------- inputs of the session

ComposicionPorDefecto ==
  [agua |-> 7500, proteina |-> 1000, grasa |-> 500, carbohidratos |-> 800,
   fibra |-> 100, cenizas |-> 100]

\* The default, pure water, and the default with 2 % ash (a sum of 101 %).
Composiciones ==
  {ComposicionPorDefecto,
   [agua |-> 10000, proteina |-> 0, grasa |-> 0, carbohidratos |-> 0,
    fibra |-> 0, cenizas |-> 0],
   [ComposicionPorDefecto EXCEPT !.cenizas = 200]}

ValoresTf == {-1 * Fix, 2 * Fix}

\* The values a user types into each widget; every number_input with
\* min_value=0.0 gets no negative value.
ValoresDe(campo) ==
  IF campo = "T_prop" THEN {20 * Fix, -10 * Fix}
  ELSE IF campo \in {"T_inicial_alimento", "T_medio"} THEN {20 * Fix, 80 * Fix}
  ELSE IF campo = "h" THEN {0, 100}
  ELSE IF campo \in {"geometria", "geometria_plank"} THEN Geometrias
  ELSE IF campo \in {"dimension_a", "dimension_a_plank"} THEN {0, 200}
  ELSE IF campo = "t_minutos" THEN {0, 30}
  ELSE IF campo = "posicion_x" THEN {0, 100, 300}
  ELSE IF campo = "T_final_alimento" THEN {10 * Fix, 20 * Fix, 60 * Fix}
  ELSE IF campo = "T_ambiente_congelacion" THEN {-20 * Fix, -1 * Fix}
  ELSE {0, 20}

\* ------------------------------------------------------------ the script

\* The first run of the script: every widget at its default, no button.
AppInit ==
  /\ composicion = ComposicionPorDefecto
  /\ Tf_input = -1 * Fix
  /\ calculation_type = "Propiedades a T > 0"
  /\ parametros = ParametrosAlCambiar("Propiedades a T > 0",
                                      "Propiedades a T > 0",
                                      VariablesIniciales)
  /\ formularios = DibujarFormularios(composicion, Tf_input, calculation_type,
                                      parametros)
  /\ salida = SinPulsar

SinLlamada ==
  /\ llamada = [fn |-> "ninguna"]
  /\ retorno = NoCall
  /\ previa = NoCall

Init == AppInit /\ SinLlamada

\* Every change of a widget reruns the script with the button not pressed.
Rerun(c, tf, tipo, p) ==
  /\ composicion' = c
  /\ Tf_input' = tf
  /\ calculation_type' = tipo
  /\ parametros' = p
  /\ formularios' = DibujarFormularios(c, tf, tipo, p)
  /\ salida' = SinPulsar
  /\ UNCHANGED directa

EditarComposicion ==
  \E c \in Composiciones \ {composicion} :
    Rerun(c, Tf_input, calculation_type, parametros)

EditarTf ==
  \E tf \in ValoresTf \ {Tf_input} :
    Rerun(composicion, tf, calculation_type, parametros)

ElegirCalculo ==
  \E tipo \in TiposDeCalculo \ {calculation_type} :
    Rerun(composicion, Tf_input, tipo,
          ParametrosAlCambiar(calculation_type, tipo, parametros))

EditarParametro ==
  \E campo \in WidgetsDe(calculation_type) :
    \E v \in ValoresDe(campo) \ {parametros[campo]} :
      Rerun(composicion, Tf_input, calculation_type,
            [parametros EXCEPT ![campo] = v])

\* Pressing the button reruns the script: the forms are drawn again and the
\* button's block runs.
PulsarBoton ==
  /\ formularios' = DibujarFormularios(composicion, Tf_input,
                                       calculation_type, parametros)
  /\ salida' = RealizarCalculo(composicion, Tf_input, calculation_type,
                               parametros)
  /\ UNCHANGED <<composicion, Tf_input, calculation_type, parametros>>
  /\ UNCHANGED directa

Next ==
  \/ EditarComposicion
  \/ EditarTf
  \/ ElegirCalculo
  \/ EditarParametro
  \/ PulsarBoton

Spec == Init /\ [][Next]_vars

\* ------------------------------------- direct calls of the Heisler operations

FuncionesHeisler ==
  {"calcular_temperatura_final_punto_frio", "calcular_tiempo_para_temperatura",
   "calcular_temperatura_posicion"}

\* The arguments a caller may pass: the functions themselves restrict none
\* of them.  alpha = 14306 and k = 5425 are the default food at 50 C.
ArgumentosHeisler ==
  [fn : {"ninguna"},
   t_segundos : {0, 60, 1800},
   T_final_alimento : {10 * Fix, 20 * Fix, 50 * Fix, 80 * Fix, 90 * Fix},
   T_inicial_alimento : {20 * Fix, 80 * Fix},
   T_medio : {20 * Fix, 80 * Fix},
   alpha_alimento_medio : {0, 14306},
   k_alimento_medio : {0, 5425},
   h : {0, 100, 100000},
   geometria : Geometrias,
   dimension_a : {-200, 0, 200},
   posicion_x : {-100, 0, 100, 300}]

InitFn ==
  /\ AppInit
  /\ llamada \in ArgumentosHeisler
  /\ retorno = NoCall
  /\ previa = NoCall

LlamarPuntoFrio ==
  /\ llamada.fn = "ninguna"
  /\ llamada' = [llamada EXCEPT !.fn = "calcular_temperatura_final_punto_frio"]
  /\ retorno' = calcular_temperatura_final_punto_frio(llamada.t_segundos,
                  llamada.T_inicial_alimento, llamada.T_medio,
                  llamada.alpha_alimento_medio, llamada.k_alimento_medio,
                  llamada.h, llamada.geometria, llamada.dimension_a)
  /\ previa' = NoCall
  /\ UNCHANGED app

LlamarTiempo ==
  /\ llamada.fn = "ninguna"
  /\ llamada' = [llamada EXCEPT !.fn = "calcular_tiempo_para_temperatura"]
  /\ retorno' = calcular_tiempo_para_temperatura(llamada.T_final_alimento,
                  llamada.T_inicial_alimento, llamada.T_medio,
                  llamada.alpha_alimento_medio, llamada.k_alimento_medio,
                  llamada.h, llamada.geometria, llamada.dimension_a)
  /\ previa' = NoCall
  /\ UNCHANGED app

LlamarPosicion ==
  /\ llamada.fn = "ninguna"
  /\ llamada' = [llamada EXCEPT !.fn = "calcular_temperatura_posicion"]
  /\ retorno' = calcular_temperatura_posicion(llamada.t_segundos,
                  llamada.T_inicial_alimento, llamada.T_medio,
                  llamada.alpha_alimento_medio, llamada.k_alimento_medio,
                  llamada.h, llamada.geometria, llamada.dimension_a,
                  llamada.posicion_x)
  /\ previa' = NoCall
  /\ UNCHANGED app

\* The centre temperature just returned is passed as the target of
\* calcular_tiempo_para_temperatura, every other argument unchanged.
LlamarTiempoDesdeCentro ==
  /\ llamada.fn = "calcular_temperatura_final_punto_frio"
  /\ retorno.kind = "tuple"
  /\ llamada' = [llamada EXCEPT !.fn = "calcular_tiempo_para_temperatura",
                                !.T_final_alimento = retorno.v[1]]
  /\ retorno' = calcular_tiempo_para_temperatura(retorno.v[1],
                  llamada.T_inicial_alimento, llamada.T_medio,
                  llamada.alpha_alimento_medio, llamada.k_alimento_medio,
                  llamada.h, llamada.geometria, llamada.dimension_a)
  /\ previa' = retorno
  /\ UNCHANGED app

\* After the centre temperature, the temperature at x = 0 for the same
\* arguments; previa keeps the result of the first call.
LlamarPosicionEnElCentro ==
  /\ llamada.fn = "calcular_temperatura_final_punto_frio"
  /\ retorno.kind = "tuple"
  /\ llamada' = [llamada EXCEPT !.fn = "calcular_temperatura_posicion",
                                !.posicion_x = 0]
  /\ retorno' = calcular_temperatura_posicion(llamada.t_segundos,
                  llamada.T_inicial_alimento, llamada.T_medio,
                  llamada.alpha_alimento_medio, llamada.k_alimento_medio,
                  llamada.h, llamada.geometria, llamada.dimension_a, 0)
  /\ previa' = retorno
  /\ UNCHANGED app

NextFn ==
  \/ LlamarPuntoFrio
  \/ LlamarTiempo
  \/ LlamarPosicion
  \/ LlamarTiempoDesdeCentro
  \/ LlamarPosicionEnElCentro

SpecFn == InitFn /\ [][NextFn]_vars

\* ------------------------------------------------ direct calls of Plank

\* A composition without water that adds up to 100.
SinAgua ==
  [agua |-> 0, proteina |-> 4000, grasa |-> 2000, carbohidratos |-> 3200,
   fibra |-> 400, cenizas |-> 400]

ComposicionesPlank ==
  {ComposicionPorDefecto,
   [ComposicionPorDefecto EXCEPT !.agua = 10000, !.proteina = 0,
      !.grasa = 0, !.carbohidratos = 0, !.fibra = 0, !.cenizas = 0],
   SinAgua}

\* The arguments of calcular_tiempo_congelacion_plank, and the composition
\* from which the button's block derives k_f and L_e.
ArgumentosPlank ==
  [fn : {"ninguna"},
   composicion : ComposicionesPlank,
   Tf_input : {-2 * Fix, -1 * Fix},
   T_ambiente_congelacion : {-20 * Fix, -2 * Fix, 0},
   h_congelacion : {-20, 0, 20},
   k_alimento_congelado : {0, 15000},
   L_e : {0, 250200},
   geometria_plank : Geometrias,
   dimension_a_plank : {-200, 0, 200}]

InitPlank ==
  /\ AppInit
  /\ llamada \in ArgumentosPlank
  /\ retorno = NoCall
  /\ previa = NoCall

\* calcular_tiempo_congelacion_plank with the k_f and L_e it is given.
LlamarPlank ==
  /\ llamada.fn = "ninguna"
  /\ llamada' = [llamada EXCEPT !.fn = "calcular_tiempo_congelacion_plank"]
  /\ retorno' = calcular_tiempo_congelacion_plank(llamada.Tf_input,
                  llamada.T_ambiente_congelacion, llamada.h_congelacion,
                  llamada.k_alimento_congelado, llamada.L_e,
                  llamada.geometria_plank, llamada.dimension_a_plank)
  /\ previa' = NoCall
  /\ UNCHANGED app

\* The Plank flow of the script: k_f from the aggregator at T_kf_plank and
\* L_e from the water percentage, then the call.  previa keeps what the
\* aggregator returned for k_f.
LlamarFlujoPlank ==
  /\ llamada.fn = "ninguna"
  /\ llamada' = [llamada EXCEPT !.fn = "flujo Plank"]
  /\ retorno' = BotonPlank(llamada.composicion, llamada.Tf_input,
                           llamada).result
  /\ previa' = calcular_propiedades_alimento(llamada.composicion,
                 TemperaturaKfPlank(llamada.Tf_input,
                                    llamada.T_ambiente_congelacion),
                 llamada.Tf_input)
  /\ UNCHANGED app

NextPlank ==
  \/ LlamarPlank
  \/ LlamarFlujoPlank

SpecPlank == InitPlank /\ [][NextPlank]_vars

\* -------------------------------------------------- direct calls of PMs

\* The arguments of calcular_pm_solido_aparente: Tf_input from below
\* absolute zero to above 0 C, porcentaje_agua from 0 to 100.
ArgumentosPMs ==
  [fn : {"ninguna"},
   Tf_input : {-300 * Fix, -20 * Fix, -5 * Fix, -2 * Fix, -1 * Fix, 0,
               2 * Fix},
   porcentaje_agua : {0, 500, 2500, 5000, 7500, 9000, 9900, 10000}]

InitPMs ==
  /\ AppInit
  /\ llamada \in ArgumentosPMs
  /\ retorno = NoCall
  /\ previa = NoCall

LlamarPMs ==
  /\ llamada.fn = "ninguna"
  /\ llamada' = [llamada EXCEPT !.fn = "calcular_pm_solido_aparente"]
  /\ retorno' = calcular_pm_solido_aparente(llamada.Tf_input,
                  llamada.porcentaje_agua)
  /\ previa' = NoCall
  /\ UNCHANGED app

NextPMs == LlamarPMs

SpecPMs == InitPMs /\ [][NextPMs]_vars

\* ------------------------------------------ direct calls of the aggregator

\* Temperatures from below absolute zero (T_K <= 0 at -273.15 C and under)
\* to above every Tf; at 600 C the water correlation rho_w is negative.
Temperaturas ==
  {-300 * Fix, -T0_K, -250 * Fix, -40 * Fix, -20 * Fix, -10 * Fix, -2 * Fix,
   -1 * Fix, 0, 1 * Fix, 2 * Fix, 20 * Fix, 600 * Fix}

\* The arguments of calcular_propiedades_alimento, with a second temperature
\* T_otra for a second call on the same composicion and Tf.
ArgumentosAgregador ==
  [fn : {"ninguna"},
   composicion : ComposicionesPlank,
   T : Temperaturas,
   T_otra : Temperaturas,
   Tf : {-5 * Fix, -1 * Fix, 0, 2 * Fix}]

InitAgregador ==
  /\ AppInit
  /\ llamada \in ArgumentosAgregador
  /\ retorno = NoCall
  /\ previa = NoCall

\* Two calls of calcular_propiedades_alimento: at T_otra, kept in previa,
\* and at T, kept in retorno.
LlamarAgregador ==
  /\ llamada.fn = "ninguna"
  /\ llamada' = [llamada EXCEPT !.fn = "calcular_propiedades_alimento"]
  /\ previa' = calcular_propiedades_alimento(llamada.composicion,
                 llamada.T_otra, llamada.Tf)
  /\ retorno' = calcular_propiedades_alimento(llamada.composicion,
                  llamada.T, llamada.Tf)
  /\ UNCHANGED app

NextAgregador == LlamarAgregador

SpecAgregador == InitAgregador /\ [][NextAgregador]_vars

\* --------------------------------- direct calls of calcular_lambda1_A1

\* Biot numbers, scaled by Fix, from 0 to beyond the table: under 0.001, the
\* first breakpoint 0.01, inside the table, its last breakpoint 1000, and
\* above it.
NumerosDeBiot ==
  {0, 5, 10, 50, 100, 1000, 10000, 100000, 1000000, 5000000, BiInfinite - 1,
   BiInfinite, BiInfinite + 1, 2 * BiInfinite}

\* The arguments of calcular_lambda1_A1, with a second Biot number Bi_otro
\* for a second call on the same geometry.
ArgumentosCoeficientes ==
  [fn : {"ninguna"}, Bi : NumerosDeBiot, Bi_otro : NumerosDeBiot,
   geometria : Geometrias]

InitCoeficientes ==
  /\ AppInit
  /\ llamada \in ArgumentosCoeficientes
  /\ retorno = NoCall
  /\ previa = NoCall

\* Two calls of calcular_lambda1_A1: at Bi_otro, kept in previa, and at Bi,
\* kept in retorno.
LlamarCoeficientes ==
  /\ llamada.fn = "ninguna"
  /\ llamada' = [llamada EXCEPT !.fn = "calcular_lambda1_A1"]
  /\ previa' = calcular_lambda1_A1(llamada.Bi_otro, llamada.geometria)
  /\ retorno' = calcular_lambda1_A1(llamada.Bi, llamada.geometria)
  /\ UNCHANGED app

NextCoeficientes == LlamarCoeficientes

SpecCoeficientes == InitCoeficientes /\ [][NextCoeficientes]_vars

\* ------------------------------------------------------------- properties

\* The st.error messages of the three Heisler operations.
ErroresHeisler ==
  {"error: a es cero", "error: k es cero", "error: alpha es cero",
   "error: T final fuera de rango", "error: T final no alcanzable",
   "error: tiempo negativo", "error: x fuera del alimento"}

HayError(r) == r.msgs \cap ErroresHeisler # {}
SinResultado(r) == r.kind \in {"None", "NoneTuple"}

Llamada(fn) == llamada.fn = fn
LlamadaHecha == llamada.fn \in FuncionesHeisler

\* The composition of the current run is off 100 by more than 0.01.
ComposicionInvalida == Abs(SumaComposicion(composicion) - 10000) > 1

\* The inputs of the direct call that no operation's contract excludes.
EntradasFisicas ==
  /\ llamada.dimension_a > 0
  /\ llamada.k_alimento_medio # 0
  /\ llamada.alpha_alimento_medio # 0
  /\ llamada.h > 0
  /\ llamada.T_inicial_alimento # llamada.T_medio

\* theta_target and A1 of the direct call (k # 0 and T_inicial # T_medio).
ThetaLlamada ==
  ThetaTarget(llamada.T_final_alimento, llamada.T_inicial_alimento,
              llamada.T_medio)
A1Llamada ==
  calcular_lambda1_A1(Biot(llamada.h, llamada.dimension_a,
                           llamada.k_alimento_medio),
                      llamada.geometria).A1

\* The target lies strictly outside the closed interval between T_inicial
\* and T_medio.
ObjetivoFueraDelIntervalo ==
  \/ /\ llamada.T_final_alimento < llamada.T_inicial_alimento
     /\ llamada.T_final_alimento < llamada.T_medio
  \/ /\ llamada.T_final_alimento > llamada.T_inicial_alimento
     /\ llamada.T_final_alimento > llamada.T_medio

\* The three preconditions under which the inverse solve reaches its
\* computation of theta_target.
TiempoLlegaATheta ==
  /\ Llamada("calcular_tiempo_para_temperatura")
  /\ llamada.dimension_a # 0
  /\ llamada.T_inicial_alimento # llamada.T_medio
  /\ llamada.k_alimento_medio # 0

\* C1 (as stated): every aggregator call of a run, whether made while the
\* forms are drawn or after the button is pressed, is rejected when the
\* composition is off 100 by more than 0.01.
C1_AgregadorRechaza ==
  \A c \in formularios.agg \cup salida.agg :
    c.suma_invalida => c.kind # "tuple"

\* C2: when the button is pressed with a composition off 100 by more than
\* 0.01, the run shows the error, invokes none of the five operations, makes
\* no aggregator call in the button's block and shows no success.
C2_BotonSeDetiene ==
  (salida # SinPulsar /\ ComposicionInvalida)
    => /\ "error: ajusta la composicion al 100" \in salida.msgs
       /\ salida.invocadas = {}
       /\ salida.agg = {}
       /\ ~salida.exito
       /\ ~salida.excepcion

C2_Witness ==
  /\ salida # SinPulsar
  /\ ComposicionInvalida
  /\ calculation_type = "Tiempo de proceso"
  /\ salida.invocadas = {}

C4_FueraDeRango ==
  (/\ Llamada("calcular_tiempo_para_temperatura")
   /\ llamada.T_inicial_alimento # llamada.T_medio
   /\ ObjetivoFueraDelIntervalo)
    => /\ HayError(retorno)
       /\ SinResultado(retorno)
       /\ retorno.did = {}
       /\ llamada.dimension_a # 0
            => /\ retorno.kind = "NoneTuple"
               /\ retorno.msgs = {"error: T final fuera de rango"}

C4_Witness ==
  /\ Llamada("calcular_tiempo_para_temperatura")
  /\ llamada.T_inicial_alimento = 20 * Fix
  /\ llamada.T_medio = 80 * Fix
  /\ llamada.T_final_alimento = 10 * Fix
  /\ llamada.dimension_a = 200
  /\ retorno.kind = "NoneTuple"

\* C5 (as stated): the centre temperature returned for a time t, passed as
\* the target of calcular_tiempo_para_temperatura with the same arguments,
\* gives back t (here: within two minutes, the resolution of the
\* arithmetic).
C5_IdaYVuelta ==
  (previa.kind = "tuple" /\ EntradasFisicas)
    => /\ retorno.kind = "tuple"
       /\ Abs(retorno.v[1] - (llamada.t_segundos \div 60)) <= 2

\* C6 (as stated): a dimension a <= 0 is an explicit error without a
\* numeric result in each of the three operations.
C6_DimensionNoPositiva ==
  (/\ LlamadaHecha
   /\ llamada.dimension_a <= 0
   /\ llamada.k_alimento_medio # 0
   /\ llamada.T_inicial_alimento # llamada.T_medio)
    => (HayError(retorno) /\ SinResultado(retorno))

\* C7 (as stated): T_inicial = T_medio is an explicit error without a
\* numeric result in each of the three operations.
C7_SinDiferenciaTermica ==
  (/\ LlamadaHecha
   /\ llamada.T_inicial_alimento = llamada.T_medio
   /\ llamada.dimension_a > 0
   /\ llamada.k_alimento_medio # 0)
    => (HayError(retorno) /\ retorno.kind # "tuple")

\* C8 (as stated): k = 0 or alpha = 0 is an explicit error without a
\* numeric result in each of the three operations.
C8_PropiedadCero ==
  (/\ LlamadaHecha
   /\ llamada.k_alimento_medio = 0 \/ llamada.alpha_alimento_medio = 0
   /\ llamada.dimension_a > 0
   /\ llamada.h > 0
   /\ llamada.T_inicial_alimento # llamada.T_medio)
    => (HayError(retorno) /\ retorno.kind # "tuple")

\* C9 (as stated): no Heisler operation called with h = 0 returns a numeric
\* result.
C9_ConveccionCero ==
  (/\ LlamadaHecha
   /\ llamada.h = 0
   /\ llamada.dimension_a > 0
   /\ llamada.k_alimento_medio # 0
   /\ llamada.alpha_alimento_medio # 0
   /\ llamada.T_inicial_alimento # llamada.T_medio)
    => retorno.kind # "tuple"

\* No error precondition of the called operation holds: physical inputs,
\* the position inside the food, the target reachable.
SinPrecondicionDeError ==
  /\ LlamadaHecha
  /\ EntradasFisicas
  /\ Llamada("calcular_temperatura_posicion")
       => (0 <= llamada.posicion_x /\ llamada.posicion_x <= llamada.dimension_a)
  /\ Llamada("calcular_tiempo_para_temperatura")
       => (0 < ThetaLlamada /\ ThetaLlamada <= Fix /\ ThetaLlamada <= A1Llamada)

\* The Fourier number of the direct call: computed from t by the two
\* forward operations, solved for by the inverse one.
FourierLlamada ==
  IF Llamada("calcular_tiempo_para_temperatura")
  THEN FourierInverso(
         calcular_lambda1_A1(Biot(llamada.h, llamada.dimension_a,
                                  llamada.k_alimento_medio),
                             llamada.geometria).lambda1,
         FDiv(ThetaLlamada, A1Llamada))
  ELSE Fourier(llamada.alpha_alimento_medio, llamada.t_segundos,
               llamada.dimension_a)

\* C10 (as stated): in each of the three operations, with no error
\* precondition and Fo < 0.2, the warning is shown and the numeric result
\* is still returned.
C10_FoBajoSoloAvisa ==
  (SinPrecondicionDeError /\ FourierLlamada < 20)
    => /\ "warning: Fo < 0.2" \in retorno.msgs
       /\ retorno.kind = "tuple"

\* ------------------------------------------------ Plank: properties

\* The call is over and the arguments are those of the state.
PlankLlamado == llamada.fn \in {"calcular_tiempo_congelacion_plank", "flujo Plank"}

\* Ta < Tf, h > 0, a > 0.
PrecondicionesPlank ==
  /\ llamada.T_ambiente_congelacion < llamada.Tf_input
  /\ llamada.h_congelacion > 0
  /\ llamada.dimension_a_plank > 0

\* C11: when Tf equals Ta (and a is not zero) the Plank function returns a
\* freezing time of +infinity.
C11_TfIgualTaInfinito ==
  (Llamada("calcular_tiempo_congelacion_plank")
     /\ llamada.Tf_input = llamada.T_ambiente_congelacion
     /\ llamada.dimension_a_plank # 0)
  => retorno.kind = "inf"

\* C12: every violation of Ta < Tf, h > 0, a > 0 is rejected by the Plank
\* function with an error message and without a freezing time.
C12_PrecondicionesRechazadas ==
  (Llamada("calcular_tiempo_congelacion_plank") /\ ~PrecondicionesPlank)
  => (SinResultado(retorno) /\ retorno.msgs # {})

\* C13 as stated: for valid inputs and every composition adding up to 100,
\* water percentage 0 included, the freezing time of the Plank flow is
\* strictly positive.
C13_TiempoPositivo ==
  (Llamada("flujo Plank") /\ PrecondicionesPlank)
  => (retorno.kind = "tuple" /\ retorno.v[1] > 0)

\* C13 amended: for valid inputs and every composition adding up to 100 the
\* Plank flow returns a time that is never negative, strictly positive when
\* the food holds water and exactly 0 when it holds none (L_e = 0).
C13_TiempoNoNegativo ==
  (Llamada("flujo Plank") /\ PrecondicionesPlank)
  => /\ retorno.kind = "tuple"
     /\ retorno.v[1] >= 0
     /\ (llamada.composicion.agua > 0 => retorno.v[1] > 0)
     /\ (llamada.composicion.agua = 0 => retorno.v[1] = 0)

\* The Plank flow has run on valid inputs for a food with water and
\* returned a positive time.
C13_Witness ==
  /\ Llamada("flujo Plank")
  /\ PrecondicionesPlank
  /\ llamada.composicion.agua > 0
  /\ retorno.kind = "tuple"
  /\ retorno.v[1] > 0

\* -------------------------------------------------- PMs: properties

\* XA at the Tf of the call (Tf in Kelvin positive).
XALlamada == Exp(ExponenteXA(llamada.Tf_input + T0_K))

\* C14: for every Tf > 0 the PMs function returns the error outcome None,
\* never a number and never +infinity.
C14_TfPositivaEsError ==
  (Llamada("calcular_pm_solido_aparente") /\ llamada.Tf_input > 0)
  => retorno.kind = "None"

\* C15: whenever the water percentage is 0 or 100 the PMs function returns
\* the error outcome None, for every Tf, Tf >= 0 included.
C15_SinAguaOSinSolidos ==
  (Llamada("calcular_pm_solido_aparente")
     /\ llamada.porcentaje_agua \in {0, 100 * 100})
  => retorno.kind = "None"

\* C16: every outcome of the PMs function is None, +infinity or a finite
\* value >= 0; Tf = 0 and XA >= 1 give +infinity; a finite value is
\* XA*m_s*18.015 / (m_u*(1-XA)) with 0 < XA < 1 and 0 < m_u < 1.
C16_ResultadosPMs ==
  Llamada("calcular_pm_solido_aparente")
  => /\ retorno.kind \in {"None", "inf", "value"}
     /\ (llamada.Tf_input = 0 => retorno.kind = "inf")
     /\ ((llamada.Tf_input + T0_K > 0 /\ XALlamada >= Fix)
           => retorno.kind = "inf")
     /\ (retorno.kind = "value"
           => /\ retorno.v[1] >= 0
              /\ llamada.Tf_input + T0_K > 0
              /\ 0 < XALlamada /\ XALlamada < Fix
              /\ 0 < llamada.porcentaje_agua
              /\ llamada.porcentaje_agua < 100 * 100
              /\ retorno.v[1] = PMsFormula(llamada.porcentaje_agua, XALlamada))

\* The PMs function has returned a finite value for a food with water and
\* solids and Tf below 0 C.
C16_Witness ==
  /\ Llamada("calcular_pm_solido_aparente")
  /\ retorno.kind = "value"
  /\ llamada.Tf_input < 0
  /\ retorno.v[1] > 0

\* ------------------------------------------- aggregator: properties

\* C17: the ice fraction Xi and the unfrozen-water fraction Xu of every call
\* of the aggregator add up to w/100 and lie in [0, w/100]; when T >= Tf
\* there is no ice and density, Cp and k are those of the unfrozen branch.
C17_EstadoDelHielo ==
  Llamada("calcular_propiedades_alimento")
  => /\ retorno.fraccion_hielo + retorno.fraccion_agua_no_congelada
          = llamada.composicion.agua
     /\ 0 <= retorno.fraccion_hielo
     /\ retorno.fraccion_hielo <= llamada.composicion.agua
     /\ 0 <= retorno.fraccion_agua_no_congelada
     /\ retorno.fraccion_agua_no_congelada <= llamada.composicion.agua
     /\ (llamada.T >= llamada.Tf
           => /\ retorno.fraccion_hielo = 0
              /\ ~retorno.congelado
              /\ retorno.densidad
                   = PropiedadesNoCongelado(llamada.composicion,
                                            llamada.T).densidad
              /\ retorno.cp
                   = PropiedadesNoCongelado(llamada.composicion, llamada.T).cp
              /\ retorno.k
                   = PropiedadesNoCongelado(llamada.composicion, llamada.T).k)

\* The aggregator has been called below Tf for a food with water and part
\* of the water, not all of it, is ice.
C17_Witness ==
  /\ Llamada("calcular_propiedades_alimento")
  /\ llamada.T < llamada.Tf
  /\ retorno.congelado
  /\ 0 < retorno.fraccion_hielo
  /\ 0 < retorno.fraccion_agua_no_congelada

\* C18: for every Tf and w > 0 the ice fraction at any T strictly below Tf
\* is > 0, never exceeds w/100, and is at least as large at a lower
\* temperature, temperatures at or below absolute zero included.
C18_HieloBajoTf ==
  (Llamada("calcular_propiedades_alimento")
     /\ llamada.composicion.agua > 0
     /\ llamada.T < llamada.Tf)
  => /\ retorno.fraccion_hielo > 0
     /\ retorno.fraccion_hielo <= llamada.composicion.agua
     /\ (llamada.T_otra <= llamada.T
           => previa.fraccion_hielo >= retorno.fraccion_hielo)

\* C19: when T = Tf, or when T + 273.15 <= 0, the aggregator returns its
\* values with an ice fraction of 0.
C19_HieloCeroEnLosBordes ==
  (Llamada("calcular_propiedades_alimento")
     /\ (llamada.T = llamada.Tf \/ llamada.T + T0_K <= 0))
  => (retorno.kind = "tuple" /\ retorno.fraccion_hielo = 0)

\* 1 / sum(mass_fraction_i / rho_i) over ice, unfrozen water and solids.
MediaArmonica(comp, T, fraccion_hielo, fraccion_agua_no_congelada) ==
  DensidadCongelado(MulDiv(fraccion_hielo, 1000000000, rho_ice)
                    + MulDiv(fraccion_agua_no_congelada, 1000000000, rho_w(T))
                    + SumaInvRhoSolidos(comp))

\* The arithmetic weighted sum of the values prop of the solids, v_hielo of
\* ice and v_agua of water.
MediaAritmetica(comp, prop, fraccion_hielo, v_hielo, fraccion_agua_no_congelada, v_agua) ==
  FMul(fraccion_hielo, v_hielo) + FMul(fraccion_agua_no_congelada, v_agua)
  + SumaSolidos(comp, prop)

\* C20: in both branches of the aggregator the density is the harmonic mean
\* 1/rho = sum(mass_fraction_i / rho_i), to 1 kg/m3, and Cp and k are the
\* arithmetic mass-fraction-weighted sums of the component values.
C20_ReglasDeMezcla ==
  Llamada("calcular_propiedades_alimento")
  => /\ Abs(retorno.densidad
              - MediaArmonica(llamada.composicion, llamada.T,
                              retorno.fraccion_hielo,
                              retorno.fraccion_agua_no_congelada)) <= Fix
     /\ retorno.cp
          = MediaAritmetica(llamada.composicion, cp_solidos,
                            retorno.fraccion_hielo, cp_ice,
                            retorno.fraccion_agua_no_congelada,
                            cp_w(llamada.T))
     /\ retorno.k
          = MediaAritmetica(llamada.composicion, k_solidos,
                            retorno.fraccion_hielo, k_ice,
                            retorno.fraccion_agua_no_congelada,
                            k_w(llamada.T))

\* k / (densidad * cp) in the units of alpha, whatever the signs.
Cociente(k, densidad, cp) == MulDiv(MulDiv(k, 1000000000, densidad), 1000000, cp)

\* C21: the alpha returned by the aggregator equals k/(rho*Cp) whenever
\* rho*Cp is not 0, a negative product included, and is 0 when rho*Cp is 0.
C21_Difusividad ==
  Llamada("calcular_propiedades_alimento")
  => IF retorno.densidad = 0 \/ retorno.cp = 0
     THEN retorno.alpha = 0
     ELSE retorno.alpha = Cociente(retorno.k, retorno.densidad, retorno.cp)

\* Cp and k of the food with all its water taken with the ice constants,
\* and with all its water taken with the liquid correlations at T.
ConAguaComoHielo(comp) ==
  [cp |-> MediaAritmetica(comp, cp_solidos, comp.agua, cp_ice, 0, 0),
   k  |-> MediaAritmetica(comp, k_solidos, comp.agua, k_ice, 0, 0)]
ConAguaLiquida(comp, T) ==
  [cp |-> MediaAritmetica(comp, cp_solidos, 0, 0, comp.agua, cp_w(T)),
   k  |-> MediaAritmetica(comp, k_solidos, 0, 0, comp.agua, k_w(T))]

\* C22: the water of the food is taken with the ice constants or with the
\* liquid correlation by the sign of T alone: ice for Tf < T < 0, liquid for
\* 0 <= T < Tf.
C22_RamaDelAguaPorSignoDeT ==
  (Llamada("calcular_propiedades_alimento") /\ llamada.composicion.agua > 0)
  => /\ (llamada.Tf < llamada.T /\ llamada.T < 0)
          => /\ retorno.cp = ConAguaComoHielo(llamada.composicion).cp
             /\ retorno.k = ConAguaComoHielo(llamada.composicion).k
     /\ (0 <= llamada.T /\ llamada.T < llamada.Tf)
          => /\ retorno.cp = ConAguaLiquida(llamada.composicion, llamada.T).cp
             /\ retorno.k = ConAguaLiquida(llamada.composicion, llamada.T).k

\* ------------------------------------------ coefficients: properties

\* The closed-form limits for Bi -> infinity: Slab lambda1 = pi/2 and
\* A1 = 4/pi, Cylinder lambda1 = 2.4048, Sphere lambda1 = pi and A1 = 2.
LimiteLambda1(geometria) ==
  IF geometria = "Placa Plana" THEN 15708
  ELSE IF geometria = "Cilindro" THEN 24048 ELSE 31416
LimiteA1Conocido(geometria, A1) ==
  IF geometria = "Placa Plana" THEN A1 = 12732
  ELSE IF geometria = "Cilindro" THEN TRUE ELSE A1 = 2 * Fix

\* C23: calcular_lambda1_A1 returns A1 = 1 for Bi towards 0, the closed-form
\* limits of the geometry at Bi = 1000 and for every Bi > 1000, and values
\* of A1 and lambda1 that never decrease as Bi grows.
C23_LimitesDeLosCoeficientes ==
  Llamada("calcular_lambda1_A1")
  => /\ (llamada.Bi < BiLumped => retorno.A1 = Fix)
     /\ (llamada.Bi >= BiInfinite
           => /\ retorno.lambda1 = LimiteLambda1(llamada.geometria)
              /\ LimiteA1Conocido(llamada.geometria, retorno.A1))
     /\ (llamada.Bi_otro <= llamada.Bi
           => /\ previa.A1 <= retorno.A1
              /\ previa.lambda1 <= retorno.lambda1)

\* ---------------------------------------------- position: properties

\* The domain on which calcular_temperatura_posicion is to return values.
DominioDePosicion ==
  /\ llamada.dimension_a > 0
  /\ 0 <= llamada.posicion_x
  /\ llamada.posicion_x <= llamada.dimension_a
  /\ llamada.k_alimento_medio # 0
  /\ llamada.T_inicial_alimento # llamada.T_medio

\* C24: for each of the three geometries and every valid input with
\* T_inicial # T_medio, calcular_temperatura_posicion at x = 0 returns a
\* position factor equal to 1.
C24_FactorEnElCentro ==
  (Llamada("calcular_temperatura_posicion")
     /\ DominioDePosicion
     /\ llamada.posicion_x = 0)
  => (retorno.kind = "tuple" /\ retorno.v[6] = Fix)

\* v lies in the closed interval between T_medio and T_inicial of the call.
EntreMedioEInicial(v) ==
  \/ llamada.T_medio <= v /\ v <= llamada.T_inicial_alimento
  \/ llamada.T_inicial_alimento <= v /\ v <= llamada.T_medio

\* C27: for identical inputs the temperature of
\* calcular_temperatura_posicion at x = 0 equals the centre temperature of
\* calcular_temperatura_final_punto_frio, short times included, and both
\* lie between T_medio and T_inicial.
C27_CentroIgualAPosicionCero ==
  (Llamada("calcular_temperatura_posicion")
     /\ previa.kind = "tuple"
     /\ DominioDePosicion)
  => /\ retorno.kind = "tuple"
     /\ retorno.v[1] = previa.v[1]
     /\ EntreMedioEInicial(previa.v[1])
     /\ EntreMedioEInicial(retorno.v[1])

\* C28: on its valid domain calcular_temperatura_posicion returns the
\* 6-tuple and raises nothing; for x < 0 or x > a (a not 0) it returns None
\* before Bi or Fo is computed.
C28_PosicionTotal ==
  Llamada("calcular_temperatura_posicion")
  => /\ (DominioDePosicion
           => retorno.kind = "tuple" /\ Len(retorno.v) = 6)
     /\ ((llamada.dimension_a # 0
            /\ PosicionFueraDelAlimento(llamada.posicion_x,
                                         llamada.dimension_a))
           => retorno.kind = "None" /\ retorno.did = {})

\* ------------------------------------------ Plank flow: properties

\* C25: whenever the Plank flow produces a freezing time, Ta < Tf and the
\* k_f it used was computed by the aggregator at a temperature strictly
\* below Tf, through the frozen branch.
C25_KfEnRamaCongelada ==
  (Llamada("flujo Plank") /\ retorno.kind = "tuple")
  => /\ llamada.T_ambiente_congelacion < llamada.Tf_input
     /\ TemperaturaKfPlank(llamada.Tf_input, llamada.T_ambiente_congelacion)
          < llamada.Tf_input
     /\ previa.congelado

\* The Plank flow has returned a time with a k_f of the frozen branch.
C25_Witness ==
  /\ Llamada("flujo Plank")
  /\ retorno.kind = "tuple"
  /\ previa.congelado
  /\ previa.k > 0

\* C26: when calcular_tiempo_congelacion_plank ends in an error (a = 0,
\* Tf <= Ta, h = 0, k_f = 0), None or a tuple of None values, the button's
\* block shows no freezing time and ends without an uncaught exception.
C26_ErroresDePlankEnElBoton ==
  ("calcular_tiempo_congelacion_plank" \in salida.invocadas
     /\ SinResultado(salida.result))
  => (~salida.exito /\ ~salida.excepcion)

====
